---- MODULE Spec2Model ----
(***************************************************************************)
(* AreaBites storefront (src/App.tsx): one browser client (AppProvider and *)
(* the views under it) talking to the hosted store: tables food_items and  *)
(* orders, their realtime change feed, and the HTTP requests in flight.    *)
(*                                                                         *)
(* Ids are uuids in the store; they are numbered 1, 2, ... in insertion    *)
(* order here.  Prices are whole rupees (as in the menu: 299, 149), for    *)
(* which the arithmetic of JavaScript numbers is exact.  Of a food item    *)
(* the fields id, name, price and the three media urls are kept;           *)
(* description and size are copied the same way as name (the admin form    *)
(* holds them, for its check of the required fields).  The supabase        *)
(* client is configured (App renders only a configuration error            *)
(* otherwise), so the `if (!supabase) return` guards never fire.           *)
(***************************************************************************)
EXTENDS Integers, Sequences, FiniteSets, TLC

\* ---------------------------------------------------------------- bounds
\* Largest quantity the customer raises one cart line to.
MaxQty == 2
\* Largest number of rows the orders table grows to.
MaxOrders == 2
\* Largest number of rows the food_items table grows to.
MaxItems == 3
\* Largest number of placeOrder calls awaiting their insert at once.
MaxPlacing == 1
\* Largest number of updateOrderStatus calls awaiting their update at once.
MaxUpdating == 1
\* Latest reading of the clock at which a status update is still started.
MaxClock == 2
\* Largest number of addFoodItem calls running at once.
MaxAdding == 1
\* Largest number of times the impatient customer submits the checkout form
\* again while a placeOrder call awaits its insert.
MaxResubmits == 1

\* ------------------------------------------------------------ data types
Null == "null"

Views == {"customer", "cart", "checkout", "admin", "my-orders"}

OrderStatuses == {"Pending", "Preparing", "Out for Delivery", "Delivered", "Cancelled"}

PaymentMethods == {"Cash on Delivery", "Credit Card", "UPI"}

\* What the checkout form can hold when it is submitted: complete, and
\* lacking one of its fields.
CustomerForms ==
    { [name |-> "Asha", phone |-> "98100", address |-> "12 MG Road"],
      [name |-> "", phone |-> "98100", address |-> "12 MG Road"],
      [name |-> "Asha", phone |-> "", address |-> "12 MG Road"],
      [name |-> "Asha", phone |-> "98100", address |-> ""] }

\* The admin form filled in completely, without a video.
DosaForm ==
    [name |-> "Masala Dosa", description |-> "Crisp, with potato", size |-> "Regular",
     price |-> 99, image1File |-> "dosa1.png", image2File |-> "dosa2.png",
     videoFile |-> Null]

\* What the admin form can hold when it is submitted: complete without a
\* video, complete with one, and lacking one of the fields it requires (the
\* price of the untouched form is 0).
ItemForms ==
    { DosaForm,
      [DosaForm EXCEPT !.videoFile = "dosa.mp4"],
      [DosaForm EXCEPT !.name = ""],
      [DosaForm EXCEPT !.description = ""],
      [DosaForm EXCEPT !.size = ""],
      [DosaForm EXCEPT !.price = 0],
      [DosaForm EXCEPT !.image1File = Null],
      [DosaForm EXCEPT !.image2File = Null] }

\* The three files of addFoodItem's Promise.all.
FileFields == {"image1File", "image2File", "videoFile"}

\* getPublicUrl(fileName).data.publicUrl (the Date.now() prefix of the file
\* name, which only keeps names apart, is left out).
publicUrl(fileName) ==
    CASE fileName = "dosa1.png" -> "media/dosa1.png"
      [] fileName = "dosa2.png" -> "media/dosa2.png"
      [] fileName = "dosa.mp4" -> "media/dosa.mp4"
      [] fileName = "lassi1.png" -> "media/lassi1.png"
      [] fileName = "lassi2.png" -> "media/lassi2.png"

\* The order another customer's client inserts (its placeOrder, lines 213-219).
OtherOrder ==
    [customer_details |-> [name |-> "Meena", phone |-> "98222", address |-> "7 Lake View"],
     items |-> << [id |-> 1, name |-> "Paneer Pizza", price |-> 299,
                   image1Url |-> "media/1a", image2Url |-> "media/1b",
                   videoUrl |-> Null, quantity |-> 1] >>,
     total |-> 299, payment_method |-> "Credit Card"]

\* The item another admin's client inserts (its addFoodItem, lines 160-168).
OtherItem ==
    [name |-> "Sweet Lassi", price |-> 60, image1_url |-> publicUrl("lassi1.png"),
     image2_url |-> publicUrl("lassi2.png"), video_url |-> Null]

\* The payment methods the model's customer picks among.
PaymentChoices == {"Cash on Delivery"}

\* The rows of food_items when the client starts.
SeedItems ==
    << [id |-> 1, name |-> "Paneer Pizza", price |-> 299,
        image1_url |-> "media/1a", image2_url |-> "media/1b", video_url |-> Null],
       [id |-> 2, name |-> "Veg Burger", price |-> 149,
        image1_url |-> "media/2a", image2_url |-> "media/2b", video_url |-> Null] >>

\* The rows of orders when the client starts: one order of an earlier day.
SeedOrders ==
    << [id |-> 1,
        customer_details |-> [name |-> "Ravi", phone |-> "98111", address |-> "4 Park Lane"],
        items |-> << [id |-> 2, name |-> "Veg Burger", price |-> 149,
                      image1Url |-> "media/2a", image2Url |-> "media/2b",
                      videoUrl |-> Null, quantity |-> 1] >>,
        total |-> 149, payment_method |-> "UPI", status |-> "Preparing",
        created_at |-> 0, status_updated_at |-> 0] >>

\* ------------------------------------------------------- pure functions
mapFoodItemFromDb(item) ==
    [id |-> item.id, name |-> item.name, price |-> item.price,
     image1Url |-> item.image1_url, image2Url |-> item.image2_url,
     videoUrl |-> item.video_url]

mapOrderFromDb(order) ==
    [id |-> order.id, customer |-> order.customer_details, items |-> order.items,
     total |-> order.total, paymentMethod |-> order.payment_method,
     timestamp |-> order.created_at, status |-> order.status,
     status_updated_at |-> order.status_updated_at]

\* The check of the admin form that leaves the size out.
newItemCompleteButSize(newItem) ==
    /\ newItem.name # "" /\ newItem.description # ""
    /\ newItem.price > 0
    /\ newItem.image1File # Null /\ newItem.image2File # Null

\* AdminView.handleSubmit: newItem.name && newItem.description &&
\* newItem.size && newItem.price > 0 && newItem.image1File && newItem.image2File
newItemComplete(newItem) ==
    /\ newItem.name # "" /\ newItem.description # "" /\ newItem.size # ""
    /\ newItem.price > 0
    /\ newItem.image1File # Null /\ newItem.image2File # Null

\* CheckoutView.handleSubmit: customer.name && customer.phone && customer.address
customerComplete(customer) ==
    customer.name # "" /\ customer.phone # "" /\ customer.address # ""

\* s.some(x => x.id === id)
SomeId(s, id) == \E i \in DOMAIN s : s[i].id = id

\* [...s, x] where the code has [x, ...s].
AppendInstead(x, s) == s \o <<x>>

\* [x, ...s]
Prepend(x, s) == <<x>> \o s

RemoveAt(s, i) == SubSeq(s, 1, i - 1) \o SubSeq(s, i + 1, Len(s))

\* cart.reduce((sum, item) => sum + item.price * item.quantity, 0)
RECURSIVE reduceTotal(_, _, _)
reduceTotal(c, i, sum) ==
    IF i > Len(c) THEN sum
    ELSE reduceTotal(c, i + 1, sum + c[i].price * c[i].quantity)

\* The reduce summing the prices without the quantities.
cartTotalOfPrices(c) == reduceTotal([i \in DOMAIN c |-> [c[i] EXCEPT !.quantity = 1]], 1, 0)

cartTotal(c) == reduceTotal(c, 1, 0)

\* total.toFixed(2) of a whole number: the digits of the number, ".", "00".
toFixed2(n) == [whole |-> n, cents |-> 0]

\* addToCart without its lookup of the existing line.
addToCartAlwaysAppends(prev, item) == Append(prev, [quantity |-> 1] @@ item)

\* The state updater of addToCart.
addToCartUpdater(prev, item) ==
    IF SomeId(prev, item.id)
    THEN [i \in DOMAIN prev |->
            IF prev[i].id = item.id
            THEN [prev[i] EXCEPT !.quantity = @ + 1]
            ELSE prev[i]]
    ELSE Append(prev, [quantity |-> 1] @@ item)

\* updateCartQuantity filtering with >= 0 in place of > 0.
updateCartQuantityKeepsZero(prev, itemId, quantity) ==
    SelectSeq([i \in DOMAIN prev |->
                 IF prev[i].id = itemId
                 THEN [prev[i] EXCEPT !.quantity = quantity]
                 ELSE prev[i]],
              LAMBDA item : item.quantity >= 0)

\* The state updater of updateCartQuantity.
updateCartQuantityUpdater(prev, itemId, quantity) ==
    SelectSeq([i \in DOMAIN prev |->
                 IF prev[i].id = itemId
                 THEN [prev[i] EXCEPT !.quantity = quantity]
                 ELSE prev[i]],
              LAMBDA item : item.quantity > 0)

\* removeFromCart dropping the last line, whatever id it was called with.
removeFromCartDropsLast(prev, itemId) ==
    SubSeq(prev, 1, Len(prev) - 1)

\* The state updater of removeFromCart.
removeFromCartUpdater(prev, itemId) ==
    SelectSeq(prev, LAMBDA item : item.id # itemId)

\* updateOrderStatus giving every order the status, whatever its id.
withEveryStatus(prev, orderId, status) ==
    [k \in DOMAIN prev |-> [prev[k] EXCEPT !.status = status]]

\* prev.map(o => o.id === orderId ? {...o, status: status} : o)
withStatus(prev, orderId, status) ==
    [k \in DOMAIN prev |->
        IF prev[k].id = orderId THEN [prev[k] EXCEPT !.status = status] ELSE prev[k]]

\* The UPDATE handler replacing every order, whatever its id.
withUpdatedOrderEverywhere(prev, updatedOrder) ==
    [k \in DOMAIN prev |-> updatedOrder]

\* prev.map(o => o.id === updatedOrder.id ? updatedOrder : o)
withUpdatedOrder(prev, updatedOrder) ==
    [k \in DOMAIN prev |->
        IF prev[k].id = updatedOrder.id THEN updatedOrder ELSE prev[k]]

\* ---------------------------------------------------------------- state
VARIABLES
    loading,        \* AppProvider: useState(true)
    foodItems,      \* AppProvider: the local catalog, a sequence of FoodItem
    cart,           \* AppProvider: a sequence of CartItem
    orders,         \* AppProvider: the local Orders collection
    notifications,  \* AppProvider: the Notification Feed
    view,           \* App: useState<View>('customer')
    dbItems,        \* store: table food_items, oldest row first
    dbOrders,       \* store: table orders, oldest row first
    now,            \* the clock: writes to the store so far
    subscribed,     \* store: the client's channel has joined
    events,         \* realtime changes sent to the client, not yet handled
    itemsSelect,    \* the select of fetchFoodItems: [st, data]
    ordersSelect,   \* the select of fetchOrders: [st, data]
    placing,        \* placeOrder calls awaiting their insert
    updating,       \* updateOrderStatus calls awaiting their update
    adding,         \* addFoodItem calls: uploading, inserting, answered
    lastOp          \* history: the handler that ran last, and what it showed

appVars == <<loading, foodItems, cart, orders, notifications, view>>
storeVars == <<dbItems, dbOrders, now, subscribed, events>>
callVars == <<itemsSelect, ordersSelect, placing, updating, adding>>
vars == <<appVars, storeVars, callVars, lastOp>>

\* After AppProvider has mounted and its effect has run: both selects are
\* sent, the channel subscription is requested, nothing has answered yet.
Init ==
    /\ loading = TRUE
    /\ foodItems = <<>>
    /\ cart = <<>>
    /\ orders = <<>>
    /\ notifications = <<>>
    /\ view = "customer"
    /\ dbItems = SeedItems
    /\ dbOrders = SeedOrders
    /\ now = 0
    /\ subscribed = FALSE
    /\ events = <<>>
    /\ itemsSelect = [st |-> "sent", data |-> <<>>]
    /\ ordersSelect = [st |-> "sent", data |-> <<>>]
    /\ placing = <<>>
    /\ updating = <<>>
    /\ adding = <<>>
    /\ lastOp = [op |-> "mount"]

\* ------------------------------------------------- mounting and fetching
\* .order('created_at', { ascending: false }): newest row first.
RECURSIVE newestFirst(_)
newestFirst(rows) ==
    IF rows = <<>> THEN <<>>
    ELSE Append(newestFirst(Tail(rows)), Head(rows))

\* The store answers the select of fetchFoodItems, with its rows or an error.
selectFoodItems(ok) ==
    /\ itemsSelect.st = "sent"
    /\ itemsSelect' = IF ok THEN [st |-> "ok", data |-> newestFirst(dbItems)]
                            ELSE [st |-> "err", data |-> <<>>]
    /\ lastOp' = [op |-> "selectFoodItems"]
    /\ UNCHANGED <<appVars, storeVars, ordersSelect, placing, updating, adding>>

\* The store answers the select of fetchOrders.
selectOrders(ok) ==
    /\ ordersSelect.st = "sent"
    /\ ordersSelect' = IF ok THEN [st |-> "ok", data |-> newestFirst(dbOrders)]
                             ELSE [st |-> "err", data |-> <<>>]
    /\ lastOp' = [op |-> "selectOrders"]
    /\ UNCHANGED <<appVars, storeVars, itemsSelect, placing, updating, adding>>

\* fetchFoodItems resumes after its await; fetchAllData's Promise.all resolves
\* with the later of the two fetches, and only then setLoading(false) runs.
fetchFoodItems ==
    /\ itemsSelect.st \in {"ok", "err"}
    /\ foodItems' = IF itemsSelect.st = "ok"
                    THEN [i \in DOMAIN itemsSelect.data |->
                            mapFoodItemFromDb(itemsSelect.data[i])]
                    ELSE foodItems
    /\ itemsSelect' = [st |-> "done", data |-> <<>>]
    /\ loading' = IF ordersSelect.st = "done" THEN FALSE ELSE loading
    /\ lastOp' = [op |-> "fetchFoodItems"]
    /\ UNCHANGED <<cart, orders, notifications, view, storeVars,
                   ordersSelect, placing, updating, adding>>

fetchOrders ==
    /\ ordersSelect.st \in {"ok", "err"}
    /\ orders' = IF ordersSelect.st = "ok"
                 THEN [i \in DOMAIN ordersSelect.data |->
                         mapOrderFromDb(ordersSelect.data[i])]
                 ELSE orders
    /\ ordersSelect' = [st |-> "done", data |-> <<>>]
    /\ loading' = IF itemsSelect.st = "done" THEN FALSE ELSE loading
    /\ lastOp' = [op |-> "fetchOrders"]
    /\ UNCHANGED <<foodItems, cart, notifications, view, storeVars,
                   itemsSelect, placing, updating, adding>>

\* The store has joined the client's channel: changes are sent from now on.
subscribe ==
    /\ ~subscribed
    /\ subscribed' = TRUE
    /\ lastOp' = [op |-> "subscribe"]
    /\ UNCHANGED <<appVars, dbItems, dbOrders, now, events, callVars>>

\* ------------------------------------------------------------ navigation
\* Header: Menu, My Orders, Admin and the cart button, shown always.
\* CartView: "Proceed to Checkout", shown when the views are (not loading)
\* and the cart holds something.
setView(v) ==
    /\ v # view
    /\ v = "checkout" => (view = "cart" /\ ~loading /\ cart # <<>>)
    /\ view' = v
    /\ lastOp' = [op |-> "setView"]
    /\ UNCHANGED <<loading, foodItems, cart, orders, notifications,
                   storeVars, callVars>>

\* ------------------------------------------------------------------ cart
\* The quantity of the cart line with this id, 0 when there is none.
QuantityOf(c, id) ==
    IF SomeId(c, id)
    THEN LET i == CHOOSE k \in DOMAIN c : c[k].id = id IN c[i].quantity
    ELSE 0

\* FoodItemCard: "Add to Cart" on a card of the menu (CustomerView).
\* lastOp.run counts the addToCart calls made in a row for this id since the
\* cart lacked it (0 when something else came in between).
addToCart(item) ==
    /\ ~loading
    /\ view = "customer"
    /\ \E i \in DOMAIN foodItems : foodItems[i] = item
    /\ QuantityOf(cart, item.id) < MaxQty
    /\ cart' = addToCartUpdater(cart, item)
    /\ lastOp' = [op |-> "addToCart", id |-> item.id,
                  run |-> IF ~SomeId(cart, item.id) THEN 1
                          ELSE IF /\ lastOp.op = "addToCart"
                                  /\ lastOp.id = item.id
                                  /\ lastOp.run > 0
                               THEN lastOp.run + 1
                               ELSE 0]
    /\ UNCHANGED <<loading, foodItems, orders, notifications, view,
                   storeVars, callVars>>

\* CartView: the "-" and "+" buttons of a cart line call
\* updateCartQuantity(item.id, item.quantity - 1) and (..., item.quantity + 1).
updateCartQuantity(itemId, quantity) ==
    /\ ~loading
    /\ view = "cart"
    /\ SomeId(cart, itemId)
    /\ quantity \in {QuantityOf(cart, itemId) - 1, QuantityOf(cart, itemId) + 1}
    /\ quantity <= MaxQty
    /\ cart' = updateCartQuantityUpdater(cart, itemId, quantity)
    /\ lastOp' = [op |-> "updateCartQuantity", id |-> itemId, quantity |-> quantity]
    /\ UNCHANGED <<loading, foodItems, orders, notifications, view,
                   storeVars, callVars>>

\* CartView: the remove button of a cart line.
removeFromCart(itemId) ==
    /\ ~loading
    /\ view = "cart"
    /\ SomeId(cart, itemId)
    /\ cart' = removeFromCartUpdater(cart, itemId)
    /\ lastOp' = [op |-> "removeFromCart", id |-> itemId]
    /\ UNCHANGED <<loading, foodItems, orders, notifications, view,
                   storeVars, callVars>>

\* clearCart is handed out through the context value; no view calls it.
clearCart ==
    /\ ~loading
    /\ cart # <<>>
    /\ cart' = <<>>
    /\ lastOp' = [op |-> "clearCart"]
    /\ UNCHANGED <<loading, foodItems, orders, notifications, view,
                   storeVars, callVars>>

\* -------------------------------------------------------------- checkout
\* CheckoutView.handleSubmit up to its await: the form is checked and
\* placeOrder runs up to the insert it awaits.  placeOrder reads the cart of
\* the render it was created in: the call keeps that cart and its total.
\* orderId is history: the id the store gives the row (0: none yet).
\* calls: the most placeOrder calls that await their insert at once.
handleSubmitWithin(customer, paymentMethod, calls) ==
    /\ ~loading
    /\ view = "checkout"
    /\ IF customerComplete(customer)
       THEN /\ Len(placing) < calls
            /\ placing' = Append(placing,
                    [customer |-> customer, paymentMethod |-> paymentMethod,
                     items |-> cart, total |-> cartTotal(cart),
                     st |-> "sent", orderId |-> 0])
            /\ lastOp' = [op |-> "placeOrder", form |-> customer, alerts |-> <<>>]
       ELSE /\ placing' = placing
            /\ lastOp' = [op |-> "handleSubmit", form |-> customer,
                          alerts |-> <<"Please fill all required fields.">>]
    /\ UNCHANGED <<appVars, storeVars, itemsSelect, ordersSelect, updating, adding>>

\* The checkout form of a customer who waits for the answer of a submit
\* before submitting again.
handleSubmit(customer, paymentMethod) ==
    handleSubmitWithin(customer, paymentMethod, MaxPlacing)

\* What the channel sends for a change of the store: nothing before it joined.
Emit(evs, ev) == IF subscribed THEN Append(evs, ev) ELSE evs

\* The store runs the insert of a placeOrder call: the row gets its id, its
\* created_at and a null status_updated_at, and the change is broadcast; or
\* the store rejects the insert.  rows: the most rows the table grows to.
insertOrderWithin(i, ok, rows) ==
    /\ i \in DOMAIN placing
    /\ placing[i].st = "sent"
    /\ IF ok
       THEN /\ Len(dbOrders) < rows
            /\ LET row == [id |-> Len(dbOrders) + 1,
                           customer_details |-> placing[i].customer,
                           items |-> placing[i].items,
                           total |-> placing[i].total,
                           payment_method |-> placing[i].paymentMethod,
                           status |-> "Pending",
                           created_at |-> now + 1,
                           status_updated_at |-> Null]
               IN /\ dbOrders' = Append(dbOrders, row)
                  /\ events' = Emit(events, [table |-> "orders",
                                             eventType |-> "INSERT", new |-> row])
                  /\ placing' = [placing EXCEPT ![i].st = "ok", ![i].orderId = row.id]
            /\ now' = now + 1
       ELSE /\ placing' = [placing EXCEPT ![i].st = "err"]
            /\ UNCHANGED <<dbOrders, events, now>>
    /\ lastOp' = [op |-> "insertOrder"]
    /\ UNCHANGED <<appVars, dbItems, subscribed, itemsSelect, ordersSelect, updating, adding>>

insertOrder(i, ok) == insertOrderWithin(i, ok, MaxOrders)

\* placeOrder clearing the cart whatever the insert answered.
cartClearedAnyway(c, st) == <<>>

\* The cart after placeOrder's `if (error) ... else setCart([])`.
cartAfterPlaceOrder(c, st) == IF st = "err" THEN c ELSE <<>>

\* placeOrder resumes after its await, and handleSubmit after placeOrder:
\* the alert of a failure or setCart([]), then in both cases the success
\* alert and setView('my-orders').
placeOrderResumes(i) ==
    /\ i \in DOMAIN placing
    /\ placing[i].st \in {"ok", "err"}
    /\ cart' = cartAfterPlaceOrder(cart, placing[i].st)
    /\ view' = "my-orders"
    /\ placing' = RemoveAt(placing, i)
    /\ lastOp' = [op |-> "placeOrderResumes",
                  call |-> placing[i],
                  alerts |-> IF placing[i].st = "err"
                             THEN <<"Failed to place order", "Order placed successfully!">>
                             ELSE <<"Order placed successfully!">>]
    /\ UNCHANGED <<loading, foodItems, orders, notifications, storeVars,
                   itemsSelect, ordersSelect, updating, adding>>

\* ---------------------------------------------------------- realtime feed
\* The handler for table orders putting updated orders on the feed too.
onOrdersChangeNotifyingUpdates ==
    /\ events # <<>>
    /\ Head(events).table = "orders"
    /\ LET payload == Head(events) IN
       IF payload.eventType = "INSERT"
       THEN LET newOrder == mapOrderFromDb(payload.new) IN
            /\ orders' = Prepend(newOrder, orders)
            /\ notifications' = Prepend(newOrder, notifications)
       ELSE LET updatedOrder == mapOrderFromDb(payload.new) IN
            /\ orders' = withUpdatedOrder(orders, updatedOrder)
            /\ notifications' = Prepend(updatedOrder, notifications)
    /\ events' = Tail(events)
    /\ lastOp' = [op |-> "onOrdersChange", eventType |-> Head(events).eventType,
                  id |-> Head(events).new.id]
    /\ UNCHANGED <<loading, foodItems, cart, view, dbItems, dbOrders, now,
                   subscribed, callVars>>

\* The channel's handler for table orders, on the oldest change not handled.
onOrdersChange ==
    /\ events # <<>>
    /\ Head(events).table = "orders"
    /\ LET payload == Head(events) IN
       IF payload.eventType = "INSERT"
       THEN LET newOrder == mapOrderFromDb(payload.new) IN
            /\ orders' = Prepend(newOrder, orders)
            /\ notifications' = Prepend(newOrder, notifications)
       ELSE LET updatedOrder == mapOrderFromDb(payload.new) IN
            /\ orders' = withUpdatedOrder(orders, updatedOrder)
            /\ notifications' = notifications
    /\ events' = Tail(events)
    /\ lastOp' = [op |-> "onOrdersChange", eventType |-> Head(events).eventType,
                  id |-> Head(events).new.id]
    /\ UNCHANGED <<loading, foodItems, cart, view, dbItems, dbOrders, now,
                   subscribed, callVars>>

\* ------------------------------------------------------------ the admin
\* The status select refusing to leave a status that ends an order.
updateOrderStatusUnlessEnded(orderId, status) ==
    /\ ~loading
    /\ view = "admin"
    /\ \E k \in DOMAIN orders :
          /\ orders[k].id = orderId
          /\ orders[k].status # status
          /\ orders[k].status \notin {"Delivered", "Cancelled"}
    /\ Len(updating) < MaxUpdating
    /\ now < MaxClock
    /\ updating' = Append(updating,
            [orderId |-> orderId, status |-> status,
             status_updated_at |-> now + 1, st |-> "sent",
             from |-> LET k == CHOOSE j \in DOMAIN orders : orders[j].id = orderId
                      IN orders[k].status])
    /\ now' = now + 1
    /\ lastOp' = [op |-> "updateOrderStatus"]
    /\ UNCHANGED <<appVars, dbItems, dbOrders, subscribed, events,
                   itemsSelect, ordersSelect, placing, adding>>

\* AdminView: the status select of an order shown (its onChange fires when
\* another status than the one shown is picked) calls updateOrderStatus, which
\* reads the clock for status_updated_at and awaits the update.
\* from is history: the status the select showed.
updateOrderStatus(orderId, status) ==
    /\ ~loading
    /\ view = "admin"
    /\ \E k \in DOMAIN orders : orders[k].id = orderId /\ orders[k].status # status
    /\ Len(updating) < MaxUpdating
    /\ now < MaxClock
    /\ updating' = Append(updating,
            [orderId |-> orderId, status |-> status,
             status_updated_at |-> now + 1, st |-> "sent",
             from |-> LET k == CHOOSE j \in DOMAIN orders : orders[j].id = orderId
                      IN orders[k].status])
    /\ now' = now + 1
    /\ lastOp' = [op |-> "updateOrderStatus"]
    /\ UNCHANGED <<appVars, dbItems, dbOrders, subscribed, events,
                   itemsSelect, ordersSelect, placing, adding>>

\* The store runs the update of an updateOrderStatus call on the rows with
\* the id, and broadcasts each row changed; or the store rejects the update.
updateOrder(i, ok) ==
    /\ i \in DOMAIN updating
    /\ updating[i].st = "sent"
    /\ IF ok
       THEN LET changed(row) ==
                    [row EXCEPT !.status = updating[i].status,
                                !.status_updated_at = updating[i].status_updated_at]
                hit == {k \in DOMAIN dbOrders : dbOrders[k].id = updating[i].orderId}
            IN /\ dbOrders' = [k \in DOMAIN dbOrders |->
                                  IF k \in hit THEN changed(dbOrders[k]) ELSE dbOrders[k]]
               /\ events' = IF hit = {} THEN events
                            ELSE Emit(events,
                                      [table |-> "orders", eventType |-> "UPDATE",
                                       new |-> changed(dbOrders[CHOOSE k \in hit : TRUE])])
               /\ updating' = [updating EXCEPT ![i].st = "ok"]
       ELSE /\ updating' = [updating EXCEPT ![i].st = "err"]
            /\ UNCHANGED <<dbOrders, events>>
    /\ lastOp' = [op |-> "updateOrder"]
    /\ UNCHANGED <<appVars, dbItems, now, subscribed,
                   itemsSelect, ordersSelect, placing, adding>>

\* updateOrderStatus setting the status locally whatever the update answered.
updateOrderStatusResumesApplying(i) ==
    /\ i \in DOMAIN updating
    /\ updating[i].st \in {"ok", "err"}
    /\ orders' = withStatus(orders, updating[i].orderId, updating[i].status)
    /\ updating' = RemoveAt(updating, i)
    /\ lastOp' = [op |-> "updateOrderStatusResumes",
                  call |-> updating[i],
                  alerts |-> IF updating[i].st = "err"
                             THEN <<"Failed to update status">> ELSE <<>>]
    /\ UNCHANGED <<loading, foodItems, cart, notifications, view, storeVars,
                   itemsSelect, ordersSelect, placing, adding>>

\* updateOrderStatus resumes after its await.
updateOrderStatusResumes(i) ==
    /\ i \in DOMAIN updating
    /\ updating[i].st \in {"ok", "err"}
    /\ orders' = IF updating[i].st = "err" THEN orders
                 ELSE withStatus(orders, updating[i].orderId, updating[i].status)
    /\ updating' = RemoveAt(updating, i)
    /\ lastOp' = [op |-> "updateOrderStatusResumes",
                  call |-> updating[i],
                  alerts |-> IF updating[i].st = "err"
                             THEN <<"Failed to update status">> ELSE <<>>]
    /\ UNCHANGED <<loading, foodItems, cart, notifications, view, storeVars,
                   itemsSelect, ordersSelect, placing, adding>>

\* Another admin's client has its update of an order's status run by the
\* store (its updateOrderStatus, lines 231-234).
otherUpdatesStatus(orderId, status) ==
    /\ now < MaxClock
    /\ \E k \in DOMAIN dbOrders : dbOrders[k].id = orderId /\ dbOrders[k].status # status
    /\ LET changed(row) == [row EXCEPT !.status = status,
                                       !.status_updated_at = now + 1]
           hit == {k \in DOMAIN dbOrders : dbOrders[k].id = orderId}
       IN /\ dbOrders' = [k \in DOMAIN dbOrders |->
                             IF k \in hit THEN changed(dbOrders[k]) ELSE dbOrders[k]]
          /\ events' = Emit(events, [table |-> "orders", eventType |-> "UPDATE",
                                     new |-> changed(dbOrders[CHOOSE k \in hit : TRUE])])
    /\ now' = now + 1
    /\ lastOp' = [op |-> "otherUpdatesStatus"]
    /\ UNCHANGED <<appVars, dbItems, subscribed, callVars>>

\* clearNotifications emptying the Orders collection with the feed.
clearNotificationsAndOrders ==
    /\ notifications # <<>>
    /\ notifications' = <<>>
    /\ orders' = <<>>
    /\ lastOp' = [op |-> "clearNotifications"]
    /\ UNCHANGED <<loading, foodItems, cart, view, storeVars, callVars>>

\* Header: "Clear Notifications", shown in the dropdown of a feed that holds
\* something.
clearNotifications ==
    /\ notifications # <<>>
    /\ notifications' = <<>>
    /\ lastOp' = [op |-> "clearNotifications"]
    /\ UNCHANGED <<loading, foodItems, cart, orders, view, storeVars, callVars>>

\* Another customer's client has its order inserted.
otherPlacesOrder ==
    /\ Len(dbOrders) < MaxOrders
    /\ LET row == [id |-> Len(dbOrders) + 1, status |-> "Pending",
                   created_at |-> now + 1, status_updated_at |-> Null] @@ OtherOrder
       IN /\ dbOrders' = Append(dbOrders, row)
          /\ events' = Emit(events, [table |-> "orders",
                                     eventType |-> "INSERT", new |-> row])
    /\ now' = now + 1
    /\ lastOp' = [op |-> "otherPlacesOrder"]
    /\ UNCHANGED <<appVars, dbItems, subscribed, callVars>>

\* ---------------------------------------------------------- the catalog
\* AdminView.handleSubmit up to its await: the form is checked and
\* addFoodItem starts the uploads of the files the form holds (uploadFile
\* of no file answers null at once).  The submit button is disabled while a
\* call runs.
handleSubmitItem(newItem) ==
    /\ ~loading
    /\ view = "admin"
    /\ IF newItemComplete(newItem)
       THEN /\ Len(adding) < MaxAdding
            /\ adding' = Append(adding,
                    [item |-> newItem,
                     uploads |-> [f \in FileFields |->
                                    IF newItem[f] = Null THEN "none" ELSE "sent"],
                     st |-> "uploading", row |-> Null])
            /\ lastOp' = [op |-> "addFoodItem", form |-> newItem, alerts |-> <<>>]
       ELSE /\ adding' = adding
            /\ lastOp' = [op |-> "handleSubmitItem", form |-> newItem,
                          alerts |-> <<"Please fill all required fields and upload two images.">>]
    /\ UNCHANGED <<appVars, storeVars, itemsSelect, ordersSelect, placing, updating>>

\* The media store answers one upload of an addFoodItem call.
uploadFile(i, f, ok) ==
    /\ i \in DOMAIN adding
    /\ adding[i].st = "uploading"
    /\ adding[i].uploads[f] = "sent"
    /\ adding' = [adding EXCEPT ![i].uploads[f] = IF ok THEN "ok" ELSE "err"]
    /\ lastOp' = [op |-> "uploadFile"]
    /\ UNCHANGED <<appVars, storeVars, itemsSelect, ordersSelect, placing, updating>>

\* addFoodItem sending its insert without awaiting the uploads still running.
addFoodItemUploadedEarly(i) ==
    /\ i \in DOMAIN adding
    /\ adding[i].st = "uploading"
    /\ IF \E f \in FileFields : adding[i].uploads[f] = "err"
       THEN /\ adding' = RemoveAt(adding, i)
            /\ lastOp' = [op |-> "addFoodItemUploaded", call |-> adding[i],
                          alerts |-> <<"Failed to add food item. Please check the console for details.">>]
       ELSE /\ adding' = [adding EXCEPT ![i].st = "inserting"]
            /\ lastOp' = [op |-> "addFoodItemUploaded", call |-> adding[i],
                          alerts |-> <<>>]
    /\ UNCHANGED <<appVars, storeVars, itemsSelect, ordersSelect, placing, updating>>

\* addFoodItem resumes after Promise.all: it rejects with the first upload
\* that failed, addFoodItem throws and handleSubmit alerts; with every upload
\* done the insert of the item, carrying the urls, is sent.
addFoodItemUploaded(i) ==
    /\ i \in DOMAIN adding
    /\ adding[i].st = "uploading"
    /\ IF \E f \in FileFields : adding[i].uploads[f] = "err"
       THEN /\ adding' = RemoveAt(adding, i)
            /\ lastOp' = [op |-> "addFoodItemUploaded", call |-> adding[i],
                          alerts |-> <<"Failed to add food item. Please check the console for details.">>]
       ELSE /\ \A f \in FileFields : adding[i].uploads[f] \in {"none", "ok"}
            /\ adding' = [adding EXCEPT ![i].st = "inserting"]
            /\ lastOp' = [op |-> "addFoodItemUploaded", call |-> adding[i],
                          alerts |-> <<>>]
    /\ UNCHANGED <<appVars, storeVars, itemsSelect, ordersSelect, placing, updating>>

\* The url addFoodItem got for a file of the form: null for no file.
urlOf(fileName) == IF fileName = Null THEN Null ELSE publicUrl(fileName)

\* The store runs the insert of an addFoodItem call (and answers with the
\* row: .select().single()), broadcasting the change; or rejects it.
insertFoodItem(i, ok) ==
    /\ i \in DOMAIN adding
    /\ adding[i].st = "inserting"
    /\ IF ok
       THEN /\ Len(dbItems) < MaxItems
            /\ LET row == [id |-> Len(dbItems) + 1,
                           name |-> adding[i].item.name,
                           price |-> adding[i].item.price,
                           image1_url |-> urlOf(adding[i].item.image1File),
                           image2_url |-> urlOf(adding[i].item.image2File),
                           video_url |-> urlOf(adding[i].item.videoFile)]
               IN /\ dbItems' = Append(dbItems, row)
                  /\ events' = Emit(events, [table |-> "food_items",
                                             eventType |-> "INSERT", new |-> row])
                  /\ adding' = [adding EXCEPT ![i].st = "ok", ![i].row = row]
       ELSE /\ adding' = [adding EXCEPT ![i].st = "err"]
            /\ UNCHANGED <<dbItems, events>>
    /\ lastOp' = [op |-> "insertFoodItem"]
    /\ UNCHANGED <<appVars, dbOrders, now, subscribed,
                   itemsSelect, ordersSelect, placing, updating>>

\* addFoodItem resumes after the insert: it throws on an error, and
\* prepends the row it got otherwise; handleSubmit alerts either way.
addFoodItemResumes(i) ==
    /\ i \in DOMAIN adding
    /\ adding[i].st \in {"ok", "err"}
    /\ foodItems' = IF adding[i].st = "err" THEN foodItems
                    ELSE Prepend(mapFoodItemFromDb(adding[i].row), foodItems)
    /\ adding' = RemoveAt(adding, i)
    /\ lastOp' = [op |-> "addFoodItemResumes", call |-> adding[i],
                  alerts |-> IF adding[i].st = "err"
                             THEN <<"Failed to add food item. Please check the console for details.">>
                             ELSE <<"Food item added successfully!">>]
    /\ UNCHANGED <<loading, cart, orders, notifications, view, storeVars,
                   itemsSelect, ordersSelect, placing, updating>>

\* Another admin's client has its item inserted.
otherAddsItem ==
    /\ Len(dbItems) < MaxItems
    /\ LET row == [id |-> Len(dbItems) + 1] @@ OtherItem
       IN /\ dbItems' = Append(dbItems, row)
          /\ events' = Emit(events, [table |-> "food_items",
                                     eventType |-> "INSERT", new |-> row])
    /\ lastOp' = [op |-> "otherAddsItem"]
    /\ UNCHANGED <<appVars, dbOrders, now, subscribed, callVars>>

\* The food_items INSERT handler prepending without its check for the id.
foodItemsAlwaysPrepended(prev, newItem) == Prepend(newItem, prev)

\* The updater of the food_items INSERT handler.
foodItemsWithInserted(prev, newItem) ==
    IF SomeId(prev, newItem.id) THEN prev ELSE Prepend(newItem, prev)

\* The channel's handler for INSERT on table food_items, on the oldest
\* change not handled.  lastOp.held: the id was in the catalog already.
onFoodItemInsert ==
    /\ events # <<>>
    /\ Head(events).table = "food_items"
    /\ LET newItem == mapFoodItemFromDb(Head(events).new) IN
       /\ foodItems' = foodItemsWithInserted(foodItems, newItem)
       /\ lastOp' = [op |-> "onFoodItemInsert", id |-> newItem.id,
                     held |-> SomeId(foodItems, newItem.id)]
    /\ events' = Tail(events)
    /\ UNCHANGED <<loading, cart, orders, notifications, view, dbItems,
                   dbOrders, now, subscribed, callVars>>

ItemsOnMenu == {foodItems[i] : i \in DOMAIN foodItems}

\* The shop: the customer's side of the client, alone at the store.
NextShop ==
    \/ \E ok \in BOOLEAN : selectFoodItems(ok)
    \/ \E ok \in BOOLEAN : selectOrders(ok)
    \/ fetchFoodItems
    \/ fetchOrders
    \/ subscribe
    \/ \E v \in Views \ {"admin"} : setView(v)
    \/ \E item \in ItemsOnMenu : addToCart(item)
    \/ \E itemId \in 1..MaxItems, quantity \in 0..MaxQty :
          updateCartQuantity(itemId, quantity)
    \/ \E itemId \in 1..MaxItems : removeFromCart(itemId)
    \/ \E customer \in CustomerForms, paymentMethod \in PaymentChoices :
          handleSubmit(customer, paymentMethod)
    \/ \E i \in 1..MaxPlacing, ok \in BOOLEAN :
          insertOrder(i, ok)
    \/ \E i \in 1..MaxPlacing : placeOrderResumes(i)
    \/ onOrdersChange
    \/ clearNotifications

SpecShop == Init /\ [][NextShop]_vars


\* The cart: the shop without the realtime feed, and with clearCart called.
NextCart ==
    \/ \E ok \in BOOLEAN : selectFoodItems(ok)
    \/ \E ok \in BOOLEAN : selectOrders(ok)
    \/ fetchFoodItems
    \/ fetchOrders
    \/ \E v \in Views \ {"admin"} : setView(v)
    \/ \E item \in ItemsOnMenu : addToCart(item)
    \/ \E itemId \in 1..MaxItems, quantity \in 0..MaxQty :
          updateCartQuantity(itemId, quantity)
    \/ \E itemId \in 1..MaxItems : removeFromCart(itemId)
    \/ clearCart
    \/ \E customer \in CustomerForms, paymentMethod \in PaymentChoices :
          handleSubmit(customer, paymentMethod)
    \/ \E i \in 1..MaxPlacing, ok \in BOOLEAN : insertOrder(i, ok)
    \/ \E i \in 1..MaxPlacing : placeOrderResumes(i)

SpecCart == Init /\ [][NextCart]_vars

\* The admin's desk: orders of other customers arrive while the client
\* loads and runs, and the admin sets their status.
NextOrders ==
    \/ \E ok \in BOOLEAN : selectFoodItems(ok)
    \/ \E ok \in BOOLEAN : selectOrders(ok)
    \/ fetchFoodItems
    \/ fetchOrders
    \/ subscribe
    \/ \E v \in {"admin", "my-orders"} : setView(v)
    \/ otherPlacesOrder
    \/ \E orderId \in 1..MaxOrders, status \in OrderStatuses :
          updateOrderStatus(orderId, status)
    \/ \E i \in 1..MaxUpdating, ok \in BOOLEAN : updateOrder(i, ok)
    \/ \E i \in 1..MaxUpdating : updateOrderStatusResumes(i)
    \/ onOrdersChange
    \/ clearNotifications

SpecOrders == Init /\ [][NextOrders]_vars

\* The menu: this admin and another one add items while the client loads
\* and runs.
NextCatalog ==
    \/ \E ok \in BOOLEAN : selectFoodItems(ok)
    \/ \E ok \in BOOLEAN : selectOrders(ok)
    \/ fetchFoodItems
    \/ fetchOrders
    \/ subscribe
    \/ \E v \in {"admin", "customer"} : setView(v)
    \/ \E newItem \in ItemForms : handleSubmitItem(newItem)
    \/ \E i \in 1..MaxAdding, f \in FileFields, ok \in BOOLEAN : uploadFile(i, f, ok)
    \/ \E i \in 1..MaxAdding : addFoodItemUploaded(i)
    \/ \E i \in 1..MaxAdding, ok \in BOOLEAN : insertFoodItem(i, ok)
    \/ \E i \in 1..MaxAdding : addFoodItemResumes(i)
    \/ otherAddsItem
    \/ onFoodItemInsert

SpecCatalog == Init /\ [][NextCatalog]_vars

\* The admin at work: statuses set and items added, from the admin view.
NextAdmin ==
    \/ selectFoodItems(TRUE)
    \/ selectOrders(TRUE)
    \/ fetchFoodItems
    \/ fetchOrders
    \/ subscribe
    \/ \E v \in {"admin"} : setView(v)
    \/ \E orderId \in 1..MaxOrders, status \in {"Delivered", "Cancelled"} :
          updateOrderStatus(orderId, status)
    \/ \E i \in 1..MaxUpdating, ok \in BOOLEAN : updateOrder(i, ok)
    \/ \E i \in 1..MaxUpdating : updateOrderStatusResumes(i)
    \/ onOrdersChange
    \/ \E newItem \in ItemForms : handleSubmitItem(newItem)
    \/ \E i \in 1..MaxAdding, f \in FileFields, ok \in BOOLEAN : uploadFile(i, f, ok)
    \/ \E i \in 1..MaxAdding : addFoodItemUploaded(i)
    \/ \E i \in 1..MaxAdding, ok \in BOOLEAN : insertFoodItem(i, ok)
    \/ \E i \in 1..MaxAdding : addFoodItemResumes(i)
    \/ onFoodItemInsert

SpecAdmin == Init /\ [][NextAdmin]_vars

\* The two forms: the customer fills a cart and checks out, the admin adds
\* an item; the store answers every request.
NextForms ==
    \/ selectFoodItems(TRUE)
    \/ selectOrders(TRUE)
    \/ fetchFoodItems
    \/ fetchOrders
    \/ \E v \in {"cart", "checkout", "admin"} : setView(v)
    \/ \E item \in ItemsOnMenu : addToCart(item)
    \/ \E customer \in CustomerForms, paymentMethod \in PaymentChoices :
          handleSubmit(customer, paymentMethod)
    \/ \E i \in 1..MaxPlacing, ok \in BOOLEAN : insertOrder(i, ok)
    \/ \E i \in 1..MaxPlacing : placeOrderResumes(i)
    \/ \E newItem \in ItemForms : handleSubmitItem(newItem)
    \/ \E i \in 1..MaxAdding, f \in FileFields, ok \in BOOLEAN : uploadFile(i, f, ok)
    \/ \E i \in 1..MaxAdding : addFoodItemUploaded(i)
    \/ \E i \in 1..MaxAdding, ok \in BOOLEAN : insertFoodItem(i, ok)
    \/ \E i \in 1..MaxAdding : addFoodItemResumes(i)

SpecForms == Init /\ [][NextForms]_vars

\* A day of one order: the customer orders Paneer Pizza, the order is
\* delivered or cancelled from the admin view of the same client, and another
\* admin adds an item to the menu; the store does every write asked of it.
NextDay ==
    \/ selectFoodItems(TRUE)
    \/ selectOrders(TRUE)
    \/ fetchFoodItems
    \/ fetchOrders
    \/ subscribe
    \/ \E v \in {"customer", "cart", "checkout", "admin"} : setView(v)
    \/ \E item \in {x \in ItemsOnMenu : x.id = 1} : addToCart(item)
    \/ \E itemId \in 1..MaxItems : removeFromCart(itemId)
    \/ \E customer \in CustomerForms, paymentMethod \in PaymentChoices :
          handleSubmit(customer, paymentMethod)
    \/ \E i \in 1..MaxPlacing : insertOrder(i, TRUE)
    \/ \E i \in 1..MaxPlacing : placeOrderResumes(i)
    \/ onOrdersChange
    \/ clearNotifications
    \/ \E orderId \in 1..MaxOrders, status \in {"Delivered", "Cancelled"} :
          updateOrderStatus(orderId, status)
    \/ \E i \in 1..MaxUpdating : updateOrder(i, TRUE)
    \/ \E i \in 1..MaxUpdating : updateOrderStatusResumes(i)
    \/ otherAddsItem
    \/ onFoodItemInsert

SpecDay == Init /\ [][NextDay]_vars

\* Two admins at one order list: this client and, once this client has
\* fetched the orders and joined the channel, another one set statuses.
NextDesk ==
    \/ selectFoodItems(TRUE)
    \/ \E ok \in BOOLEAN : selectOrders(ok)
    \/ fetchFoodItems
    \/ fetchOrders
    \/ subscribe
    \/ \E v \in {"admin"} : setView(v)
    \/ \E orderId \in 1..MaxOrders, status \in OrderStatuses :
          updateOrderStatus(orderId, status)
    \/ \E i \in 1..MaxUpdating, ok \in BOOLEAN : updateOrder(i, ok)
    \/ \E i \in 1..MaxUpdating : updateOrderStatusResumes(i)
    \/ /\ subscribed
       /\ ordersSelect.st = "done"
       /\ \E orderId \in 1..MaxOrders, status \in OrderStatuses :
             otherUpdatesStatus(orderId, status)
    \/ onOrdersChange

SpecDesk == Init /\ [][NextDesk]_vars

\* The impatient customer, ordering Paneer Pizza: the checkout form is
\* submitted again while a placeOrder call awaits its insert (nothing in
\* CheckoutView disables it), and the store takes the rows of the calls.
NextRush ==
    \/ selectFoodItems(TRUE)
    \/ selectOrders(TRUE)
    \/ fetchFoodItems
    \/ fetchOrders
    \/ \E v \in {"customer", "cart", "checkout"} : setView(v)
    \/ \E item \in {x \in ItemsOnMenu : x.id = 1} : addToCart(item)
    \/ \E itemId \in 1..MaxItems : removeFromCart(itemId)
    \/ \E customer \in CustomerForms, paymentMethod \in PaymentChoices :
          handleSubmitWithin(customer, paymentMethod, MaxPlacing + MaxResubmits)
    \/ \E i \in 1..(MaxPlacing + MaxResubmits), ok \in BOOLEAN :
          insertOrderWithin(i, ok, MaxOrders + MaxResubmits)
    \/ \E i \in 1..(MaxPlacing + MaxResubmits) : placeOrderResumes(i)

SpecRush == Init /\ [][NextRush]_vars

\* ================================================================ claims

\* The lines of c that carry this id.
LinesOf(c, id) == {i \in DOMAIN c : c[i].id = id}

NoTwoLinesShareAnId(c) == \A i, j \in DOMAIN c : c[i].id = c[j].id => i = j

\* C1 - addToCart accumulates and never duplicates rows.  In every state no
\* two cart lines share an id, and after n addToCart calls in a row for an
\* id the cart lacked there is exactly one line with that id, of quantity n.
\* Every addToCart step either raises the one existing line of the id by
\* exactly 1 and leaves the rest as it was, or appends one line of quantity 1.
C1_AddToCartAccumulates ==
    /\ [](/\ NoTwoLinesShareAnId(cart)
          /\ (lastOp.op = "addToCart" /\ lastOp.run > 0) =>
                /\ Cardinality(LinesOf(cart, lastOp.id)) = 1
                /\ QuantityOf(cart, lastOp.id) = lastOp.run)
    /\ [][lastOp'.op = "addToCart" =>
            IF SomeId(cart, lastOp'.id)
            THEN /\ Len(cart') = Len(cart)
                 /\ \A k \in DOMAIN cart :
                       cart'[k] = IF cart[k].id = lastOp'.id
                                  THEN [cart[k] EXCEPT !.quantity = cart[k].quantity + 1]
                                  ELSE cart[k]
            ELSE /\ Len(cart') = Len(cart) + 1
                 /\ SubSeq(cart', 1, Len(cart)) = cart
                 /\ cart'[Len(cart')].id = lastOp'.id
                 /\ cart'[Len(cart')].quantity = 1]_vars

\* C1's case: the second addToCart in a row for an id, in a cart of two lines.
C1_Witness ==
    /\ lastOp.op = "addToCart"
    /\ lastOp.run = 2
    /\ Len(cart) = 2

\* C2 - every cart line has quantity >= 1, in every state; for every id and
\* every quantity <= 0, updateCartQuantity leaves no line with that id (a cart
\* holding only that id becomes empty, with total 0), and so did the
\* updateCartQuantity call that ran last.
C2_QuantityAtLeastOne ==
    /\ \A i \in DOMAIN cart : cart[i].quantity >= 1
    /\ \A itemId \in 1..MaxItems, quantity \in -1..0 :
          LET after == updateCartQuantityUpdater(cart, itemId, quantity) IN
          /\ ~SomeId(after, itemId)
          /\ \A i \in DOMAIN after : after[i].quantity >= 1
          /\ (Len(cart) = 1 /\ cart[1].id = itemId) =>
                (after = <<>> /\ cartTotal(after) = 0)
    /\ (lastOp.op = "updateCartQuantity" /\ lastOp.quantity <= 0) =>
          ~SomeId(cart, lastOp.id)

\* C2's case: "-" on the only line, of quantity 1, has emptied the cart.
C2_Witness ==
    /\ lastOp.op = "updateCartQuantity"
    /\ lastOp.quantity = 0
    /\ lastOp.id = 1
    /\ cart = <<>>

\* The sum of price x quantity over the lines of c, line by line from the last.
RECURSIVE ExactSum(_)
ExactSum(c) ==
    IF c = <<>> THEN 0
    ELSE ExactSum(SubSeq(c, 1, Len(c) - 1)) + c[Len(c)].price * c[Len(c)].quantity

IsTheExampleCart(c) ==
    /\ Len(c) = 2
    /\ c[1].price = 299 /\ c[1].quantity = 1
    /\ c[2].price = 149 /\ c[2].quantity = 2

\* C5 - the total CartView shows and the total placeOrder writes are the
\* exact sum of price x quantity over the cart's lines: 0 for the empty cart,
\* 597 for [{299, 1}, {149, 2}].  The call placeOrder has just made carries
\* the cart as it is and its sum, and so does every insert awaited and every
\* row the store took from this client.
C5_TotalIsExactSum ==
    /\ toFixed2(cartTotal(cart)) = [whole |-> ExactSum(cart), cents |-> 0]
    /\ cart = <<>> => cartTotal(cart) = 0
    /\ IsTheExampleCart(cart) => cartTotal(cart) = 597
    /\ lastOp.op = "placeOrder" =>
          /\ placing[Len(placing)].items = cart
          /\ placing[Len(placing)].total = ExactSum(cart)
    /\ \A i \in DOMAIN placing : placing[i].total = ExactSum(placing[i].items)
    /\ \A k \in DOMAIN dbOrders : dbOrders[k].total = ExactSum(dbOrders[k].items)

\* C5's case: placeOrder has just been called on the cart of the example.
C5_Witness ==
    /\ lastOp.op = "placeOrder"
    /\ IsTheExampleCart(cart)
    /\ placing[Len(placing)].total = 597


CartOperations == {"addToCart", "updateCartQuantity", "removeFromCart", "clearCart"}

\* C3 as the spec states it - the call of placeOrder leaves the cart as it
\* is, and when placeOrder has finished after a failed insert the cart holds
\* exactly the contents it had when placeOrder was called.
C3_CartKeepsPreCallContents ==
    /\ lastOp.op = "placeOrder" => cart = placing[Len(placing)].items
    /\ (lastOp.op = "placeOrderResumes" /\ lastOp.call.st = "err") =>
          cart = lastOp.call.items

\* C3, amended - placeOrder itself never changes the cart but by clearing it
\* when its insert has been acknowledged as done: its call leaves the cart as
\* it is, its resuming after a failed insert leaves the cart as it is at that
\* moment, and every step that changes the cart is a cart operation of the
\* customer or the resuming of a placeOrder whose insert succeeded.
C3_PlaceOrderClearsOnlyOnSuccess ==
    /\ [](lastOp.op = "placeOrder" => cart = placing[Len(placing)].items)
    /\ [][/\ (lastOp'.op = "placeOrderResumes" /\ lastOp'.call.st = "err") =>
                cart' = cart
          /\ cart' # cart =>
                \/ lastOp'.op \in CartOperations
                \/ /\ lastOp'.op = "placeOrderResumes"
                   /\ lastOp'.call.st = "ok"
                   /\ lastOp'.call.orderId \in {dbOrders[k].id : k \in DOMAIN dbOrders}
                   /\ cart' = <<>>]_vars

\* C3's case: placeOrder has finished after a failed insert, the cart holding
\* what it held when placeOrder was called.
C3_Witness ==
    /\ lastOp.op = "placeOrderResumes"
    /\ lastOp.call.st = "err"
    /\ cart # <<>>
    /\ cart = lastOp.call.items

SameBut(o, p, fields) ==
    /\ DOMAIN o = DOMAIN p
    /\ \A f \in DOMAIN o \ fields : o[f] = p[f]

\* The Orders collection after a step, against the one before it: every
\* order with another id than orderId is as it was, and every order with that
\* id is as it was but for the fields named.
OnlyChanged(before, after, orderId, fields) ==
    /\ Len(after) = Len(before)
    /\ \A k \in DOMAIN before :
          IF before[k].id = orderId
          THEN SameBut(before[k], after[k], fields)
          ELSE after[k] = before[k]

\* C6 as the spec states it - updateOrderStatus changes only the status
\* field of the order with the id in the Orders collection, when it resumes
\* and when the realtime UPDATE event that follows is handled.
C6_OnlyStatusChanges ==
    [][/\ lastOp'.op = "updateOrderStatusResumes" =>
            OnlyChanged(orders, orders', lastOp'.call.orderId, {"status"})
       /\ (lastOp'.op = "onOrdersChange" /\ lastOp'.eventType = "UPDATE") =>
            OnlyChanged(orders, orders', lastOp'.id, {"status"})]_vars

\* C6, amended - updateOrderStatus, resuming after an update that was done,
\* gives the orders with the id the new status and changes nothing else of
\* the Orders collection (nothing at all after an update that failed); the
\* realtime UPDATE event that follows changes of the orders with the id only
\* the fields status and status_updated_at, and leaves every other order as
\* it was.
C6_OnlyStatusAndItsTimeChange ==
    [][/\ lastOp'.op = "updateOrderStatusResumes" =>
            /\ OnlyChanged(orders, orders', lastOp'.call.orderId, {"status"})
            /\ lastOp'.call.st = "err" => orders' = orders
            /\ lastOp'.call.st = "ok" =>
                  \A k \in DOMAIN orders :
                     orders[k].id = lastOp'.call.orderId =>
                        orders'[k].status = lastOp'.call.status
       /\ (lastOp'.op = "onOrdersChange" /\ lastOp'.eventType = "UPDATE") =>
            OnlyChanged(orders, orders', lastOp'.id, {"status", "status_updated_at"})]_vars

\* C6's case: updateOrderStatus has resumed after an update that was done,
\* with two orders held, and the order has the new status.
C6_Witness ==
    /\ lastOp.op = "updateOrderStatusResumes"
    /\ lastOp.call.st = "ok"
    /\ Len(orders) >= 2
    /\ \E k \in DOMAIN orders :
          orders[k].id = lastOp.call.orderId /\ orders[k].status = lastOp.call.status
    /\ \E k \in DOMAIN orders : orders[k].id # lastOp.call.orderId

\* C7 - clearNotifications empties the Notification Feed and leaves the
\* Orders collection, the cart and the catalog as they were.
C7_ClearNotificationsFrame ==
    /\ [](lastOp.op = "clearNotifications" => notifications = <<>>)
    /\ [][lastOp'.op = "clearNotifications" =>
            /\ notifications' = <<>>
            /\ orders' = orders
            /\ cart' = cart
            /\ foodItems' = foodItems]_vars

\* C7's case: the feed has been cleared while orders, a cart and a catalog
\* are held.
C7_Witness ==
    /\ lastOp.op = "clearNotifications"
    /\ notifications = <<>>
    /\ Len(orders) = 2
    /\ cart # <<>>
    /\ foodItems # <<>>

\* C8 - the realtime item-created event of an item whose id the catalog
\* holds leaves the catalog as it is; of any other item it prepends the item,
\* once.
C8_ItemEventDeduplicated ==
    [][lastOp'.op = "onFoodItemInsert" =>
          IF SomeId(foodItems, lastOp'.id)
          THEN foodItems' = foodItems
          ELSE /\ Len(foodItems') = Len(foodItems) + 1
               /\ Tail(foodItems') = foodItems
               /\ Head(foodItems').id = lastOp'.id
               /\ Cardinality(LinesOf(foodItems', lastOp'.id)) = 1]_vars

\* C8's case: the event of an item the catalog held has been handled.
C8_Witness ==
    /\ lastOp.op = "onFoodItemInsert"
    /\ lastOp.held
    /\ Cardinality(LinesOf(foodItems, lastOp.id)) = 1
    /\ Len(foodItems) = 3

IdsOf(c) == {c[i].id : i \in DOMAIN c}

\* C9 - under every interleaving of addFoodItem's prepend, the realtime
\* item-created event and the catalog fetch, the local catalog never holds two
\* entries with the same id, and does not lose an item it holds.
C9_ItemHeldExactlyOnce ==
    /\ [](NoTwoLinesShareAnId(foodItems))
    /\ [][IdsOf(foodItems) \subseteq IdsOf(foodItems')]_vars

\* C10 - neither the Orders collection nor the Notification Feed ever holds
\* two entries with the same order id.
C10_NoOrderTwice ==
    /\ NoTwoLinesShareAnId(orders)
    /\ NoTwoLinesShareAnId(notifications)

FailedToAdd == <<"Failed to add food item. Please check the console for details.">>

\* C11 - a failed write leaves the local state as it was and shows a failure
\* message.  When updateOrderStatus resumes after an update the store
\* rejected, the Orders collection (and the rest of the client's state) is
\* unchanged and "Failed to update status" is shown; when addFoodItem ends on
\* a failed upload, or resumes after an insert the store rejected, the catalog
\* (and the rest of the client's state) is unchanged and the failure of the
\* add is shown.  A rejected update or insert leaves the store's tables as
\* they were.
C11_FailedWriteLeavesStateUnchanged ==
    [][/\ (lastOp'.op = "updateOrderStatusResumes" /\ lastOp'.call.st = "err") =>
            /\ orders' = orders
            /\ appVars' = appVars
            /\ lastOp'.alerts = <<"Failed to update status">>
       /\ (/\ lastOp'.op = "addFoodItemUploaded"
           /\ \E f \in FileFields : lastOp'.call.uploads[f] = "err") =>
            /\ foodItems' = foodItems
            /\ appVars' = appVars
            /\ dbItems' = dbItems
            /\ lastOp'.alerts = FailedToAdd
       /\ (lastOp'.op = "addFoodItemResumes" /\ lastOp'.call.st = "err") =>
            /\ foodItems' = foodItems
            /\ appVars' = appVars
            /\ lastOp'.alerts = FailedToAdd
       /\ \A i \in DOMAIN updating :
            (/\ i \in DOMAIN updating' /\ updating[i].st = "sent"
             /\ updating'[i].st = "err") => dbOrders' = dbOrders
       /\ \A i \in DOMAIN adding :
            (/\ i \in DOMAIN adding' /\ adding[i].st = "inserting"
             /\ adding'[i].st = "err") => dbItems' = dbItems]_vars

\* C11's case: updateOrderStatus has resumed after an update the store
\* rejected; the order keeps the status it had, and the failure is shown.
C11_Witness ==
    /\ lastOp.op = "updateOrderStatusResumes"
    /\ lastOp.call.st = "err"
    /\ lastOp.alerts = <<"Failed to update status">>
    /\ \E k \in DOMAIN orders :
          /\ orders[k].id = lastOp.call.orderId
          /\ orders[k].status # lastOp.call.status
          /\ orders[k].status = "Preparing"

\* Every file of the call's form is uploaded (no file: nothing to upload).
UploadsComplete(call) ==
    \A f \in FileFields :
        IF call.item[f] = Null THEN call.uploads[f] = "none"
        ELSE call.uploads[f] = "ok"

\* C12 - the steps of addFoodItem are ordered.  A call whose insert is sent,
\* done or rejected has all its uploads complete, and the row of an insert
\* done is in the store, carrying the urls of the files uploaded; a call
\* that ends on a failed upload ends without an insert (no call passes to its
\* insert in that step, the table is unchanged); addFoodItem adds the item to
\* the catalog only when it resumes after an insert acknowledged as done (the
\* row is in the store then), and nothing but addFoodItem, the realtime
\* handler and the fetch changes the catalog.
C12_UploadsThenInsertThenCatalog ==
    /\ [](\A i \in DOMAIN adding :
            /\ adding[i].st \in {"inserting", "ok", "err"} => UploadsComplete(adding[i])
            /\ adding[i].st = "ok" =>
                  /\ \E k \in DOMAIN dbItems : dbItems[k] = adding[i].row
                  /\ \A f \in FileFields :
                        adding[i].item[f] # Null =>
                           publicUrl(adding[i].item[f]) \in
                              {adding[i].row.image1_url, adding[i].row.image2_url,
                               adding[i].row.video_url})
    /\ [][/\ (/\ lastOp'.op = "addFoodItemUploaded"
               /\ \E f \in FileFields : lastOp'.call.uploads[f] = "err") =>
                /\ dbItems' = dbItems
                /\ \A j \in DOMAIN adding' : \E i \in DOMAIN adding : adding'[j] = adding[i]
          /\ (lastOp'.op = "addFoodItemUploaded" /\ lastOp'.alerts = <<>>) =>
                UploadsComplete(lastOp'.call)
          /\ lastOp'.op = "addFoodItemResumes" =>
                IF lastOp'.call.st = "ok"
                THEN /\ UploadsComplete(lastOp'.call)
                     /\ \E k \in DOMAIN dbItems : dbItems[k] = lastOp'.call.row
                     /\ foodItems' = Prepend(mapFoodItemFromDb(lastOp'.call.row), foodItems)
                ELSE foodItems' = foodItems
          /\ foodItems' # foodItems =>
                lastOp'.op \in {"addFoodItemResumes", "onFoodItemInsert", "fetchFoodItems"}]_vars

\* C12's case: addFoodItem has resumed after the insert of an item with two
\* images and a video, all three uploaded, and the item heads the catalog.
C12_Witness ==
    /\ lastOp.op = "addFoodItemResumes"
    /\ lastOp.call.st = "ok"
    /\ \A f \in FileFields : lastOp.call.uploads[f] = "ok"
    /\ foodItems # <<>>
    /\ Head(foodItems).id = lastOp.call.row.id
    /\ Head(foodItems).videoUrl = "media/dosa.mp4"
    /\ \E k \in DOMAIN dbItems : dbItems[k] = lastOp.call.row

\* C13 - orders are never deleted: an order the Orders collection holds is
\* held in every later state (no step takes an order id out of it).
C13_OrdersNeverDeleted ==
    [][IdsOf(orders) \subseteq IdsOf(orders')]_vars

\* The fields of an order that change after its placement.
StatusFields == {"status", "status_updated_at"}

\* The local order o shows the row of the store with its id, but possibly for
\* its status fields.
ShowsItsRow(o) ==
    \E k \in DOMAIN dbOrders :
        /\ dbOrders[k].id = o.id
        /\ SameBut(o, mapOrderFromDb(dbOrders[k]), StatusFields)

\* C14 - a placed order is a frozen snapshot.  The row the store takes from
\* placeOrder has the items (with their quantities), the total, the customer
\* details and the payment method the call captured; no step changes a row of
\* the store but in its status fields, so the creation timestamp stamped at
\* the insert stays too; and every order of the Orders collection and of
\* the Notification Feed shows the row of its id but for the status fields,
\* whatever cart operation, catalog addition or status update came later (a
\* status update and its realtime event change the status fields of the
\* orders held, and nothing else of them).
C14_PlacedOrderIsFrozen ==
    /\ [](/\ \A i \in DOMAIN placing :
                placing[i].st = "ok" =>
                   \E k \in DOMAIN dbOrders :
                      /\ dbOrders[k].id = placing[i].orderId
                      /\ dbOrders[k].items = placing[i].items
                      /\ dbOrders[k].total = placing[i].total
                      /\ dbOrders[k].customer_details = placing[i].customer
                      /\ dbOrders[k].payment_method = placing[i].paymentMethod
          /\ \A k \in DOMAIN orders : ShowsItsRow(orders[k])
          /\ \A k \in DOMAIN notifications : ShowsItsRow(notifications[k]))
    /\ [][/\ Len(dbOrders') >= Len(dbOrders)
          /\ \A k \in DOMAIN dbOrders :
                SameBut(dbOrders[k], dbOrders'[k], StatusFields)
          /\ lastOp'.op = "insertOrder" =>
                \E i \in DOMAIN placing :
                   /\ placing[i].st = "sent"
                   /\ dbOrders'[Len(dbOrders')].items = placing[i].items
                   /\ dbOrders'[Len(dbOrders')].total = placing[i].total
                   /\ dbOrders'[Len(dbOrders')].customer_details = placing[i].customer
                   /\ dbOrders'[Len(dbOrders')].payment_method = placing[i].paymentMethod
                   /\ dbOrders'[Len(dbOrders')].created_at = now'
          /\ lastOp'.op \in {"updateOrderStatusResumes", "onOrdersChange"} =>
                \/ /\ lastOp'.op = "onOrdersChange"
                   /\ lastOp'.eventType = "INSERT"
                   /\ Tail(orders') = orders
                \/ /\ Len(orders') = Len(orders)
                   /\ \A k \in DOMAIN orders :
                         SameBut(orders[k], orders'[k], StatusFields)]_vars

\* C14's case: the order placed with two Paneer Pizza has been delivered, a
\* third item has come to the menu and the cart holds one pizza again; the
\* order is held with its two pizzas, its total and its creation time.
C14_Witness ==
    /\ Len(foodItems) = 3
    /\ Len(cart) = 1 /\ cart[1].quantity = 1
    /\ \E k \in DOMAIN orders :
          /\ orders[k].id = 2
          /\ orders[k].status = "Delivered"
          /\ Len(orders[k].items) = 1
          /\ orders[k].items[1].quantity = 2
          /\ orders[k].total = 598
          /\ orders[k].customer.name = "Asha"
          /\ orders[k].timestamp = 1
    /\ \E k \in DOMAIN orders : orders[k].id = 1

\* C15 - status transitions are unconstrained.  Whenever the admin view
\* shows an order (and the model lets one more updateOrderStatus start), the
\* call is possible for that order and every status but the one it shows,
\* whatever that one is; the update the store runs for a call gives the row
\* the status of the call whatever status it had, and the call resuming after
\* it gives the order held that status.
C15_AnyStatusMayFollowAny ==
    /\ []((~loading /\ view = "admin" /\ Len(updating) < MaxUpdating /\ now < MaxClock) =>
            \A k \in DOMAIN orders :
               \A t \in OrderStatuses \ {orders[k].status} :
                  ENABLED updateOrderStatus(orders[k].id, t))
    /\ [][/\ \A i \in DOMAIN updating :
                (/\ i \in DOMAIN updating' /\ updating[i].st = "sent"
                 /\ updating'[i].st = "ok") =>
                    \A k \in DOMAIN dbOrders :
                       dbOrders[k].id = updating[i].orderId =>
                          dbOrders'[k].status = updating[i].status
          /\ (lastOp'.op = "updateOrderStatusResumes" /\ lastOp'.call.st = "ok") =>
                \A k \in DOMAIN orders :
                   orders[k].id = lastOp'.call.orderId =>
                      orders'[k].status = lastOp'.call.status]_vars

\* C15's case: an order shown as Delivered has been set back to Pending, in
\* the store and in the Orders collection.
C15_Witness ==
    /\ lastOp.op = "updateOrderStatusResumes"
    /\ lastOp.call.st = "ok"
    /\ lastOp.call.from = "Delivered"
    /\ lastOp.call.status = "Pending"
    /\ \E k \in DOMAIN orders :
          orders[k].id = lastOp.call.orderId /\ orders[k].status = "Pending"
    /\ \E k \in DOMAIN dbOrders :
          dbOrders[k].id = lastOp.call.orderId /\ dbOrders[k].status = "Pending"

\* C16 - the Notification Feed is populated only on order creation and
\* drained only by clearNotifications.  The handling of an order-created
\* event prepends exactly one entry, the order of the event, to the feed as
\* it was; clearNotifications empties it; and no other step (a status update
\* or its UPDATE event, a cart operation, an addition to the catalog, a
\* fetch, a change of view, a placeOrder call or its resuming) changes it.
C16_FeedOnlyFromOrderCreation ==
    [][IF lastOp'.op = "onOrdersChange" /\ lastOp'.eventType = "INSERT"
       THEN /\ Len(notifications') = Len(notifications) + 1
            /\ Tail(notifications') = notifications
            /\ Head(notifications').id = lastOp'.id
            /\ Head(notifications') = Head(orders')
       ELSE IF lastOp'.op = "clearNotifications"
       THEN notifications' = <<>>
       ELSE notifications' = notifications]_vars

\* C16's case: the UPDATE event of the order this client placed has been
\* handled, after a third item came to the menu and with a cart held; the
\* feed holds its one entry, the order as it was created.
C16_Witness ==
    /\ lastOp.op = "onOrdersChange"
    /\ lastOp.eventType = "UPDATE"
    /\ lastOp.id = 2
    /\ Len(notifications) = 1
    /\ notifications[1].id = 2
    /\ notifications[1].status = "Pending"
    /\ \E k \in DOMAIN orders : orders[k].id = 2 /\ orders[k].status = "Delivered"
    /\ Len(foodItems) = 3
    /\ cart # <<>>

\* C17 - a form that fails its check attempts nothing.  The checkout form
\* calls placeOrder exactly when name, phone and address are all non-empty,
\* and the admin form calls addFoodItem exactly when name, description and
\* size are non-empty, the price is above 0 and both images are there; a
\* call starts in no other step; and a submit that fails the check leaves the
\* client's state, the store and the requests in flight as they were, and
\* shows its message.
C17_InvalidFormAttemptsNothing ==
    [][/\ lastOp'.op \in {"placeOrder", "handleSubmit"} =>
            IF /\ lastOp'.form.name # "" /\ lastOp'.form.phone # ""
               /\ lastOp'.form.address # ""
            THEN /\ lastOp'.op = "placeOrder"
                 /\ Len(placing') = Len(placing) + 1
                 /\ placing'[Len(placing')].customer = lastOp'.form
                 /\ placing'[Len(placing')].st = "sent"
            ELSE /\ lastOp'.op = "handleSubmit"
                 /\ appVars' = appVars /\ storeVars' = storeVars /\ callVars' = callVars
                 /\ lastOp'.alerts = <<"Please fill all required fields.">>
       /\ lastOp'.op \in {"addFoodItem", "handleSubmitItem"} =>
            IF /\ lastOp'.form.name # "" /\ lastOp'.form.description # ""
               /\ lastOp'.form.size # "" /\ lastOp'.form.price > 0
               /\ lastOp'.form.image1File # Null /\ lastOp'.form.image2File # Null
            THEN /\ lastOp'.op = "addFoodItem"
                 /\ Len(adding') = Len(adding) + 1
                 /\ adding'[Len(adding')].item = lastOp'.form
                 /\ adding'[Len(adding')].st = "uploading"
            ELSE /\ lastOp'.op = "handleSubmitItem"
                 /\ appVars' = appVars /\ storeVars' = storeVars /\ callVars' = callVars
                 /\ lastOp'.alerts =
                       <<"Please fill all required fields and upload two images.">>
       /\ Len(placing') > Len(placing) => lastOp'.op = "placeOrder"
       /\ Len(adding') > Len(adding) => lastOp'.op = "addFoodItem"]_vars

\* C17's case: the admin form has been submitted without a size, and no
\* call of addFoodItem runs; the message is shown.
C17_Witness ==
    /\ lastOp.op = "handleSubmitItem"
    /\ lastOp.form.size = ""
    /\ lastOp.form.name # ""
    /\ lastOp.alerts = <<"Please fill all required fields and upload two images.">>
    /\ adding = <<>>
    /\ dbItems = SeedItems
    /\ Len(foodItems) = 2

\* The lines of c with another id than itemId, in their order.
OtherLines(c, itemId) == SelectSeq(c, LAMBDA line : line.id # itemId)

\* C18 - updateCartQuantity and removeFromCart touch the line of their id
\* only.  On every cart the client comes to hold, for every id (one more than
\* the menu has, too) and every quantity: with no line of the id both leave
\* the cart as it is; with one, removeFromCart leaves exactly the other
\* lines, in their order, and updateCartQuantity leaves the other lines as
\* they are, each at its place when the quantity is above 0.  The calls the
\* cart view makes change the cart in that way.
C18_OnlyTheLineOfTheId ==
    /\ [](\A itemId \in 1..(MaxItems + 1) :
            /\ removeFromCartUpdater(cart, itemId) = OtherLines(cart, itemId)
            /\ ~SomeId(cart, itemId) => removeFromCartUpdater(cart, itemId) = cart
            /\ \A quantity \in -1..(MaxQty + 1) :
                  LET after == updateCartQuantityUpdater(cart, itemId, quantity) IN
                  /\ ~SomeId(cart, itemId) => after = cart
                  /\ OtherLines(after, itemId) = OtherLines(cart, itemId)
                  /\ quantity > 0 =>
                        /\ Len(after) = Len(cart)
                        /\ \A k \in DOMAIN cart :
                              after[k] = IF cart[k].id = itemId
                                         THEN [cart[k] EXCEPT !.quantity = quantity]
                                         ELSE cart[k])
    /\ [][lastOp'.op \in {"updateCartQuantity", "removeFromCart"} =>
            OtherLines(cart', lastOp'.id) = OtherLines(cart, lastOp'.id)]_vars

\* C18's case: removeFromCart has taken the first line out of a cart of two;
\* the other line is there with its quantity, and the cart has no line of the
\* third id.
C18_Witness ==
    /\ lastOp.op = "removeFromCart"
    /\ lastOp.id = 1
    /\ Len(cart) = 1
    /\ cart[1].id = 2
    /\ cart[1].quantity = 2
    /\ ~SomeId(cart, 3)

\* The status the store holds for the order with this id.
StoreStatus(id) ==
    LET k == CHOOSE j \in DOMAIN dbOrders : dbOrders[j].id = id IN dbOrders[k].status

\* C19 - the status held converges to the store's: with the orders fetched,
\* no updateOrderStatus call awaiting its answer or its resuming, and no
\* realtime event left to handle, every order of the Orders collection has
\* the status last written to the store for it.
C19_StatusConverges ==
    (/\ ordersSelect.st = "done"
     /\ updating = <<>>
     /\ events = <<>>) =>
        \A k \in DOMAIN orders : orders[k].status = StoreStatus(orders[k].id)

\* C20 - a successful placeOrder takes out of the cart only what it put in
\* the order: a cart line that is not a line of the order (an item added, or
\* a quantity changed, after the call) is still in the cart when placeOrder
\* has finished.
C20_CartKeepsWhatCameLater ==
    [][(lastOp'.op = "placeOrderResumes" /\ lastOp'.call.st = "ok") =>
          \A k \in DOMAIN cart :
             (\A j \in DOMAIN lastOp'.call.items : lastOp'.call.items[j] # cart[k]) =>
                \E m \in DOMAIN cart' : cart'[m] = cart[k]]_vars

\* C21 - the checkout form reports success truthfully: when placeOrder has
\* finished after a failed insert, only the failure message is shown and the
\* view stays as it was; "Order placed successfully!" and the change to the
\* my-orders view come after an insert that was done, and only then.
C21_SuccessReportedTruthfully ==
    [][lastOp'.op = "placeOrderResumes" =>
          IF lastOp'.call.st = "ok"
          THEN /\ lastOp'.alerts = <<"Order placed successfully!">>
               /\ view' = "my-orders"
          ELSE /\ lastOp'.alerts = <<"Failed to place order">>
               /\ view' = view]_vars

\* C22 - one cart yields at most one order.  Of two placeOrder calls that
\* await their answer at once with the same cart (the later one was submitted
\* while the insert of the earlier one was not acknowledged), at most one has
\* its order written to the store; and no row of the orders table has an empty
\* list of items.
C22_OneCartOneOrder ==
    /\ \A k \in DOMAIN dbOrders : dbOrders[k].items # <<>>
    /\ \A i, j \in DOMAIN placing :
          (/\ i < j
           /\ placing[i].items = placing[j].items
           /\ placing[i].st = "ok") => placing[j].st # "ok"

====
